---------------------------- MODULE Spec2Model ----------------------------
(***************************************************************************)
(* Model of webpack.common.config.ts: the evaluation of the module (the   *)
(* environment projection, serviceName, publicPath, the CDN urls, the two  *)
(* configuration objects) and the builds webpack makes from the client and *)
(* the server configuration.                                               *)
(*                                                                         *)
(* A JavaScript string is a sequence of one-character strings; a           *)
(* JavaScript value is tagged with its type.                               *)
(***************************************************************************)
EXTENDS Integers, Sequences, FiniteSets, TLC

VARIABLES pc, penv, env, serviceName, publicPath, version, cdnReact,
          clientDefine, serverDefine,
          nSplit, libFrom, libLarge, imports, rev, edits,
          dist, distBefore, lastBuild, emitted,
          prevClient, lastClient, serverOut

loadVars == <<pc, penv, env, serviceName, publicPath, version, cdnReact,
              clientDefine, serverDefine>>

sourceVars == <<nSplit, libFrom, libLarge, imports>>

buildVars == <<rev, edits, dist, distBefore, lastBuild, emitted,
               prevClient, lastClient, serverOut>>

vars == <<loadVars, sourceVars, buildVars>>

---------------------------------------------------------------------------
(* JavaScript values *)

Str(s) == [t |-> "string", s |-> s]

Undefined == [t |-> "undefined", s |-> <<>>]

\* a || b: undefined and the empty string are falsy
OrElse(a, b) == IF a.t = "undefined" \/ a.s = <<>> THEN b ELSE a

\* `${v}`: the string a template literal makes of a value
TemplateString(v) ==
  IF v.t = "undefined" THEN <<"u","n","d","e","f","i","n","e","d">> ELSE v.s

RECURSIVE SeqsUpTo(_, _)
SeqsUpTo(S, n) ==
  IF n = 0 THEN {<<>>}
  ELSE LET shorter == SeqsUpTo(S, n - 1)
       IN  shorter \cup {Append(s, c) : s \in shorter, c \in S}

---------------------------------------------------------------------------
(* Bounds and inputs *)

MaxVersionLen == 3

MaxValueLen == 2

Quote == "\""

Backslash == "\\"

\* a character the sanitizer drops of each kind (range operators, upper
\* case, white space) and one it keeps of each kind
VersionAlphabet == {"^", "A", " ", "1", ".", "-", "a"}

SampleVersion ==
  <<"^","1",".","2",".","3","-","a","l","p","h","a",".","1">>

VersionInputs ==
  SeqsUpTo(VersionAlphabet, MaxVersionLen) \cup
    {SampleVersion, <<"~","1","7",".","0",".","2">>, <<">","=","1"," ","<","2">>}

EnvAlphabet == {"1", "t", Quote, Backslash}

ValTrue == <<"t","r","u","e">>

ValProduction == <<"p","r","o","d","u","c","t","i","o","n">>

ValUrl == <<"h","t","t","p","s",":","/","/","x",".","c","o","m">>

EnvValues ==
  {Str(s) : s \in SeqsUpTo(EnvAlphabet, MaxValueLen) \cup {ValTrue, ValUrl}}
    \cup {Undefined}

\* the variables of the process environment
EnvNames == {"BASE_URL", "NODE_ENV", "SERVICE_NAME", "API_SECRET"}

ProcessEnvs ==
  { ("BASE_URL" :> b) @@ ("NODE_ENV" :> n) @@ ("SERVICE_NAME" :> s)
      @@ ("API_SECRET" :> x) :
      b \in EnvValues,
      n \in {Undefined, Str(ValProduction), Str(ValTrue), Str(<<"1">>)},
      s \in {Undefined, Str(<<>>), Str(<<"t">>)},
      x \in {Undefined, Str(<<"1">>)} }

---------------------------------------------------------------------------
(* ./env: processEnv, the public projection of process.env *)

NotSet == <<"n","o","t"," ","s","e","t">>

RecognizedKeys == {"BASE_URL", "NODE_ENV"}

processEnv(p) ==
  [k \in RecognizedKeys |-> IF p[k].t = "undefined" THEN Str(NotSet) ELSE p[k]]

---------------------------------------------------------------------------
(* absoluteVersion *)

Digits == {"0", "1", "2", "3", "4", "5", "6", "7", "8", "9"}

LowerCase ==
  {"a","b","c","d","e","f","g","h","i","j","k","l","m",
   "n","o","p","q","r","s","t","u","v","w","x","y","z"}

\* the character class [^\d.\-a-z]
VersionRegex(c) == c \notin (Digits \cup {".", "-"} \cup LowerCase)

\* String.prototype.replace(regex, '') with the g flag: every match goes
RECURSIVE ReplaceAll(_)
ReplaceAll(s) ==
  IF s = <<>> THEN <<>>
  ELSE IF VersionRegex(Head(s)) THEN ReplaceAll(Tail(s))
       ELSE <<Head(s)>> \o ReplaceAll(Tail(s))

\* replace without the g flag: only the first match goes
RECURSIVE ReplaceFirst(_)
ReplaceFirst(s) ==
  IF s = <<>> THEN <<>>
  ELSE IF VersionRegex(Head(s)) THEN Tail(s)
       ELSE <<Head(s)>> \o ReplaceFirst(Tail(s))

absoluteVersionFirstOnly(v) == ReplaceFirst(v)

absoluteVersion(v) == ReplaceAll(v)

---------------------------------------------------------------------------
(* getDefinePlugin *)

\* a code fragment DefinePlugin substitutes as it is
Code(text) == [kind |-> "code", text |-> text, entries |-> <<>>]

\* an object of code fragments, one per key
Obj(f) == [kind |-> "object", text |-> "", entries |-> f]

RECURSIVE Escape(_)
Escape(s) ==
  IF s = <<>> THEN <<>>
  ELSE IF Head(s) \in {Quote, Backslash}
       THEN <<Backslash, Head(s)>> \o Escape(Tail(s))
       ELSE <<Head(s)>> \o Escape(Tail(s))

\* JSON.stringify of a string or of undefined
JSONstringify(v) ==
  IF v.t = "undefined" THEN Undefined
  ELSE Str(<<Quote>> \o Escape(v.s) \o <<Quote>>)

DefinePlugin(processEnvDef, isServer) ==
  ("process.env" :> processEnvDef) @@ ("__isServer" :> isServer)

\* the values handed over as they are, without JSON.stringify
getDefinePluginRaw(isServer) ==
  DefinePlugin(IF isServer THEN Code("process.env")
               ELSE Obj([key \in DOMAIN env |-> env[key]]),
               isServer)

\* the keys of process.env instead of those of processEnv
getDefinePluginAllKeys(isServer) ==
  DefinePlugin(IF isServer THEN Code("process.env")
               ELSE Obj([key \in {k \in DOMAIN penv : penv[k].t # "undefined"}
                           |-> JSONstringify(penv[key])]),
               isServer)

\* the two branches of the conditional swapped
getDefinePluginSwapped(isServer) ==
  DefinePlugin(IF ~isServer THEN Code("process.env")
               ELSE Obj([key \in DOMAIN env |-> JSONstringify(env[key])]),
               isServer)

getDefinePlugin(isServer) ==
  DefinePlugin(IF isServer THEN Code("process.env")
               ELSE Obj([key \in DOMAIN env |-> JSONstringify(env[key])]),
               isServer)

---------------------------------------------------------------------------
(* Evaluation of the module, top to bottom *)

SampleEnv ==
  ("BASE_URL" :> Str(ValUrl)) @@ ("NODE_ENV" :> Str(ValProduction))
    @@ ("SERVICE_NAME" :> Undefined) @@ ("API_SECRET" :> Str(<<"1">>))

NotLoaded ==
  /\ pc = "start"
  /\ env = <<>>
  /\ serviceName = Undefined
  /\ publicPath = <<>>
  /\ cdnReact = <<>>
  /\ clientDefine = <<>>
  /\ serverDefine = <<>>

\* webpack has not run
NoSource ==
  /\ nSplit = 0
  /\ libFrom = "none"
  /\ libLarge = FALSE
  /\ imports = {}
  /\ rev = <<>>
  /\ edits = 0
  /\ dist = {}
  /\ distBefore = {}
  /\ lastBuild = "none"
  /\ emitted = {}
  /\ prevClient = [built |-> FALSE, rev |-> <<>>, chunks |-> {}]
  /\ lastClient = [built |-> FALSE, rev |-> <<>>, chunks |-> {}]
  /\ serverOut = [built |-> FALSE, files |-> {}, bundled |-> {}, externals |-> {}]

Init ==
  /\ penv \in ProcessEnvs
  /\ version = SampleVersion
  /\ NotLoaded
  /\ NoSource

InitVersion ==
  /\ penv = SampleEnv
  /\ version \in VersionInputs
  /\ NotLoaded
  /\ NoSource

\* import { processEnv as env } from './env'
ImportEnv ==
  /\ pc = "start"
  /\ env' = processEnv(penv)
  /\ pc' = "serviceName"
  /\ UNCHANGED <<sourceVars, buildVars, penv, serviceName, publicPath, version, cdnReact,
                 clientDefine, serverDefine>>

serviceNameNoDefault(p) == p["SERVICE_NAME"]

serviceNameOf(p) == OrElse(p["SERVICE_NAME"], Str(NotSet))

EvalServiceName ==
  /\ pc = "serviceName"
  /\ serviceName' = serviceNameOf(penv)
  /\ pc' = "publicPath"
  /\ UNCHANGED <<sourceVars, buildVars, penv, env, publicPath, version, cdnReact,
                 clientDefine, serverDefine>>

publicPathOf(e) == TemplateString(e["BASE_URL"]) \o <<"/","a","s","s","e","t","s","/">>

EvalPublicPath ==
  /\ pc = "publicPath"
  /\ publicPath' = publicPathOf(env)
  /\ pc' = "cdn"
  /\ UNCHANGED <<sourceVars, buildVars, penv, env, serviceName, version, cdnReact,
                 clientDefine, serverDefine>>

cdnReactOf(v) ==
  <<"https://unpkg.com/react@", absoluteVersion(v), "/umd/react.production.min.js">>

EvalCdnReact ==
  /\ pc = "cdn"
  /\ cdnReact' = cdnReactOf(version)
  /\ pc' = "clientConfig"
  /\ UNCHANGED <<sourceVars, buildVars, penv, env, serviceName, publicPath, version,
                 clientDefine, serverDefine>>

EvalClientConfig ==
  /\ pc = "clientConfig"
  /\ clientDefine' = getDefinePlugin(FALSE)
  /\ pc' = "serverConfig"
  /\ UNCHANGED <<sourceVars, buildVars, penv, env, serviceName, publicPath, version, cdnReact,
                 serverDefine>>

EvalServerConfig ==
  /\ pc = "serverConfig"
  /\ serverDefine' = getDefinePlugin(TRUE)
  /\ pc' = "loaded"
  /\ UNCHANGED <<sourceVars, buildVars, penv, env, serviceName, publicPath, version, cdnReact,
                 clientDefine>>

Next ==
  \/ ImportEnv
  \/ EvalServiceName
  \/ EvalPublicPath
  \/ EvalCdnReact
  \/ EvalClientConfig
  \/ EvalServerConfig

Spec == Init /\ [][Next]_vars

SpecVersion == InitVersion /\ [][Next]_vars

---------------------------------------------------------------------------
(* The source tree the two configurations are built from *)

MaxSplitPoints == 2

MaxEdits == 2

Mod(dir, name) == [dir |-> dir, name |-> name]

ClientEntry == Mod("src", "client")

ServerEntry == Mod("src", "server")

BabelPolyfill == "babel-polyfill"

React == "react"

\* the third-party module of the client source whose importer varies
Lib == Mod("node_modules", React)

PageChunkNames == <<"page1", "page2", "page3", "page4">>

\* the module behind the i-th dynamic import()
PageModule(i) == Mod("src", PageChunkNames[i])

\* import requests of the server source: installed packages (two of them
\* with lyft in the name, one nearly), a node built-in, a first-party
\* directory resolved through resolve.modules 'src'
LyftIdl == "@lyft/idl"

MyLyft == "my-lyft"

Flyte == "flyte"

NodePath == "path"

Components == "components"

\* the characters of a request
Chars ==
  (React :> <<"r","e","a","c","t">>)
    @@ (LyftIdl :> <<"@","l","y","f","t","/","i","d","l">>)
    @@ (MyLyft :> <<"m","y","-","l","y","f","t">>)
    @@ (Flyte :> <<"f","l","y","t","e">>)
    @@ (NodePath :> <<"p","a","t","h">>)
    @@ (Components :> <<"c","o","m","p","o","n","e","n","t","s">>)
    @@ (BabelPolyfill :> <<"b","a","b","e","l","-","p","o","l","y","f","i","l","l">>)

InstalledPackages == {React, LyftIdl, MyLyft, Flyte, BabelPolyfill}

NodeBuiltins == {NodePath}

Requests == {React, LyftIdl, MyLyft, Flyte, NodePath, Components}

ClientModules(n) ==
  {ClientEntry, Mod("node_modules", BabelPolyfill), Lib}
    \cup {PageModule(i) : i \in 1..n}

---------------------------------------------------------------------------
(* Chunks, optimization.splitChunks, LimitChunkCountPlugin *)

Chunk(name, initial, modules) ==
  [name |-> name, initial |-> initial, modules |-> modules]

\* test: /[\\/]node_modules/ on the resolved path of a module
VendorTest(m) == m.dir = "node_modules"

VendorPriority == 10

vendorAsync ==
  [name |-> "vendor", chunks |-> "async", enforce |-> TRUE,
   priority |-> VendorPriority, test |-> "vendor", minChunks |-> 1]

\* clientConfig.optimization.splitChunks.cacheGroups.vendor
vendor ==
  [name |-> "vendor", chunks |-> "initial", enforce |-> TRUE,
   priority |-> VendorPriority, test |-> "vendor", minChunks |-> 1]

\* the cache groups webpack adds when the configuration names none of them
\* off: defaultVendors and default, both for async chunks only
DefaultCacheGroups ==
  { [name |-> "defaultVendors", chunks |-> "async", enforce |-> FALSE,
     priority |-> -10, test |-> "vendor", minChunks |-> 1],
    [name |-> "default", chunks |-> "async", enforce |-> FALSE,
     priority |-> -20, test |-> "any", minChunks |-> 2] }

ClientCacheGroups == {vendor} \cup DefaultCacheGroups

\* whether a module passes splitChunks.minSize
Large(m) == m = Lib /\ libLarge

Selects(g, c) ==
  \/ g.chunks = "all"
  \/ g.chunks = "initial" /\ c.initial
  \/ g.chunks = "async" /\ ~c.initial

Accepts(g, m, c, chunks) ==
  /\ IF g.test = "any" THEN TRUE ELSE VendorTest(m)
  /\ Selects(g, c)
  /\ g.enforce \/ Large(m)
  /\ Cardinality({d \in chunks : m \in d.modules /\ Selects(g, d)}) >= g.minChunks

Candidates(groups, m, c, chunks) == {g \in groups : Accepts(g, m, c, chunks)}

\* the cache group of the highest priority that accepts the module
BestGroup(groups, m, c, chunks) ==
  CHOOSE g \in Candidates(groups, m, c, chunks) :
    \A h \in Candidates(groups, m, c, chunks) : h.priority <= g.priority

\* every module a cache group accepts leaves its chunk for the chunk of
\* the best such group; a new chunk is initial when it is split off one
SplitChunks(chunks, groups) ==
  LET all == UNION {c.modules : c \in chunks}
      moved == {mc \in all \X chunks :
                  /\ mc[1] \in mc[2].modules
                  /\ Candidates(groups, mc[1], mc[2], chunks) # {}}
      placed == {<<mc[1], mc[2], BestGroup(groups, mc[1], mc[2], chunks)>> :
                   mc \in moved}
      kept == {Chunk(c.name, c.initial,
                     {m \in c.modules : <<m, c>> \notin moved}) : c \in chunks}
      made == {Chunk(g.name,
                     \E p \in placed : p[3] = g /\ p[2].initial,
                     {p[1] : p \in {q \in placed : q[3] = g}}) :
                 g \in {p[3] : p \in placed}}
  IN  {c \in kept : c.modules # {}} \cup made

maxChunksTwo == 1 + 1

\* limitChunksPlugin: maxChunks
maxChunks == 1

Merge(a, b) ==
  IF b.initial /\ ~a.initial
  THEN Chunk(b.name, TRUE, a.modules \cup b.modules)
  ELSE Chunk(a.name, a.initial \/ b.initial, a.modules \cup b.modules)

\* LimitChunkCountPlugin: chunks are merged two at a time until no more
\* than max are left
RECURSIVE LimitChunkCount(_, _)
LimitChunkCount(chunks, max) ==
  IF Cardinality(chunks) <= max \/ Cardinality(chunks) < 2 THEN chunks
  ELSE LET a == CHOOSE c \in chunks : TRUE
           b == CHOOSE c \in chunks \ {a} : TRUE
       IN  LimitChunkCount((chunks \ {a, b}) \cup {Merge(a, b)}, max)

---------------------------------------------------------------------------
(* Output file names *)

File(name, hash, ext) == [name |-> name, hash |-> hash, ext |-> ext]

\* a digest of contents: the modules with their revisions
Digest(modules, revs) ==
  {<<m, revs[m]>> : m \in modules \cap DOMAIN revs}

\* [fullhash]: of the whole compilation
FullHash(chunks, revs) == Digest(UNION {c.modules : c \in chunks}, revs)

\* [chunkhash]: of the one chunk
ChunkHash(c, revs) == Digest(c.modules, revs)

\* a file name template filled in for a chunk
Template(template, c, chunks, revs) ==
  CASE template = "[name]-[fullhash:8].js" ->
         File(c.name, FullHash(chunks, revs), ".js")
    [] template = "[name]-[chunkhash].chunk.js" ->
         File(c.name, ChunkHash(c, revs), ".chunk.js")
    [] template = "[name]-[fullhash:8].chunk.js" ->
         File(c.name, FullHash(chunks, revs), ".chunk.js")
    [] template = "server.js" -> File("server", {}, ".js")
    [] template = "[id].js" -> File(c.name, {}, ".js")

\* output.filename names the initial chunks, output.chunkFilename the others
FileOf(output, c, chunks, revs) ==
  Template(IF c.initial THEN output.filename ELSE output.chunkFilename,
           c, chunks, revs)

clientOutputFullHashChunks ==
  [filename |-> "[name]-[fullhash:8].js",
   chunkFilename |-> "[name]-[fullhash:8].chunk.js",
   clean |-> TRUE]

clientOutputNoClean ==
  [filename |-> "[name]-[fullhash:8].js",
   chunkFilename |-> "[name]-[chunkhash].chunk.js",
   clean |-> FALSE]

\* clientConfig.output
clientOutput ==
  [filename |-> "[name]-[fullhash:8].js",
   chunkFilename |-> "[name]-[chunkhash].chunk.js",
   clean |-> TRUE]

\* serverConfig.output: no clean, and chunkFilename left to its default
serverOutput ==
  [filename |-> "server.js", chunkFilename |-> "[id].js", clean |-> FALSE]

\* statsWriterPlugin
StatsFile == File("client-stats", {}, ".json")

\* what is in the output directory once the compilation has emitted
Emit(output, before, files) ==
  IF output.clean THEN files ELSE before \cup files

---------------------------------------------------------------------------
(* serverConfig.externals *)

\* the regular expression /lyft/
LyftRegex(request) ==
  LET s == Chars[request]
  IN  \E i \in 1..(Len(s) - 3) : SubSeq(s, i, i + 3) = <<"l","y","f","t">>

\* nodeExternals without the allowlist
ExternalizedNoAllowlist(request) ==
  \/ request \in NodeBuiltins
  \/ request \in InstalledPackages

\* externalsPresets: { node: true }, nodeExternals({ allowlist: /lyft/ })
Externalized(request) ==
  \/ request \in NodeBuiltins
  \/ request \in InstalledPackages /\ ~LyftRegex(request)

ServerRequests == imports \cup {BabelPolyfill}

ServerModule(request) ==
  Mod(IF request \in InstalledPackages THEN "node_modules" ELSE "src", request)

---------------------------------------------------------------------------
(* The builds *)

NoBuild == [built |-> FALSE, rev |-> <<>>, chunks |-> {}]

NoServerBuild ==
  [built |-> FALSE, files |-> {}, bundled |-> {}, externals |-> {}]

ClientChunkGraph ==
  {Chunk("main", TRUE,
         {ClientEntry, Mod("node_modules", BabelPolyfill)}
           \cup (IF libFrom = "entry" THEN {Lib} ELSE {}))}
    \cup {Chunk(PageChunkNames[i], FALSE,
                {PageModule(i)} \cup (IF libFrom = "pages" THEN {Lib} ELSE {})) :
            i \in 1..nSplit}

ServerChunkGraph ==
  {Chunk("main", TRUE,
         {ServerEntry}
           \cup {ServerModule(r) : r \in {q \in ServerRequests : ~Externalized(q)}})}
    \cup {Chunk(PageChunkNames[i], FALSE, {PageModule(i)}) : i \in 1..nSplit}

\* an edit of one source module
EditModule(m) ==
  /\ pc = "loaded"
  /\ edits < MaxEdits
  /\ rev' = [rev EXCEPT ![m] = @ + 1]
  /\ edits' = edits + 1
  /\ UNCHANGED <<loadVars, sourceVars, dist, distBefore, lastBuild, emitted,
                 prevClient, lastClient, serverOut>>

\* webpack run with clientConfig
ClientBuild ==
  /\ pc = "loaded"
  /\ LET chunks == SplitChunks(ClientChunkGraph, ClientCacheGroups)
         named == {[name |-> c.name, initial |-> c.initial,
                    modules |-> c.modules,
                    file |-> FileOf(clientOutput, c, chunks, rev)] : c \in chunks}
         files == {c.file : c \in named} \cup {StatsFile}
     IN  /\ prevClient' = lastClient
         /\ lastClient' = [built |-> TRUE, rev |-> rev, chunks |-> named]
         /\ emitted' = files
         /\ distBefore' = dist
         /\ dist' = Emit(clientOutput, dist, files)
  /\ lastBuild' = "client"
  /\ UNCHANGED <<loadVars, sourceVars, rev, edits, serverOut>>

\* webpack run with serverConfig
ServerBuild ==
  /\ pc = "loaded"
  /\ LET split == SplitChunks(ServerChunkGraph, DefaultCacheGroups)
         chunks == LimitChunkCount(split, maxChunks)
         files == {FileOf(serverOutput, c, chunks, rev) : c \in chunks}
     IN  /\ serverOut' = [built |-> TRUE, files |-> files,
                          bundled |-> UNION {c.modules : c \in chunks},
                          externals |-> {r \in ServerRequests : Externalized(r)}]
         /\ emitted' = files
         /\ distBefore' = dist
         /\ dist' = Emit(serverOutput, dist, files)
  /\ lastBuild' = "server"
  /\ UNCHANGED <<loadVars, sourceVars, rev, edits, prevClient, lastClient>>

NextBuild ==
  \/ \E m \in DOMAIN rev : EditModule(m)
  \/ ClientBuild
  \/ ServerBuild

Loaded(p, v) ==
  /\ pc = "loaded"
  /\ penv = p
  /\ version = v
  /\ env = processEnv(p)
  /\ serviceName = serviceNameOf(p)
  /\ publicPath = publicPathOf(processEnv(p))
  /\ cdnReact = cdnReactOf(v)
  /\ clientDefine = getDefinePlugin(FALSE)
  /\ serverDefine = getDefinePlugin(TRUE)

NothingBuilt ==
  /\ rev = [m \in ClientModules(nSplit) |-> 0]
  /\ edits = 0
  /\ dist = {}
  /\ distBefore = {}
  /\ lastBuild = "none"
  /\ emitted = {}
  /\ prevClient = NoBuild
  /\ lastClient = NoBuild
  /\ serverOut = NoServerBuild

InitBuild ==
  /\ Loaded(SampleEnv, SampleVersion)
  /\ nSplit \in 0..MaxSplitPoints
  /\ libFrom \in {"none", "entry", "pages"}
  /\ libLarge \in (IF libFrom = "pages" /\ nSplit > 0 THEN BOOLEAN ELSE {FALSE})
  /\ imports = Requests
  /\ NothingBuilt

InitServer ==
  /\ Loaded(SampleEnv, SampleVersion)
  /\ nSplit \in 0..MaxSplitPoints
  /\ libFrom = "entry"
  /\ libLarge = FALSE
  /\ imports \in SUBSET Requests
  /\ NothingBuilt

SpecBuild == InitBuild /\ [][NextBuild]_vars

\* one more dynamic import() in the source
AddSplitPoint ==
  /\ pc = "loaded"
  /\ nSplit < MaxSplitPoints
  /\ nSplit' = nSplit + 1
  /\ rev' = [m \in ClientModules(nSplit + 1) |->
               IF m \in DOMAIN rev THEN rev[m] ELSE 0]
  /\ UNCHANGED <<loadVars, libFrom, libLarge, imports, edits, dist, distBefore,
                 lastBuild, emitted, prevClient, lastClient, serverOut>>

NextServer ==
  \/ AddSplitPoint
  \/ ServerBuild

SpecServer == InitServer /\ [][NextServer]_vars

---------------------------------------------------------------------------
(* Properties of the environment projection (checked under Spec) *)

ClientConfigMade == pc \in {"serverConfig", "loaded"}

BrowserEnv == clientDefine["process.env"]

\* C1: the browser-side projection built by getDefinePlugin(false) has no
\* key outside the recognized set: a variable of the process environment
\* that is not allow-listed never appears in it.
C1_BrowserKeysRecognized ==
  ClientConfigMade =>
    /\ BrowserEnv.kind = "object"
    /\ DOMAIN BrowserEnv.entries \subseteq RecognizedKeys
    /\ \A k \in EnvNames \ RecognizedKeys : k \notin DOMAIN BrowserEnv.entries

C1_Witness ==
  /\ pc = "loaded"
  /\ penv["API_SECRET"] = Str(<<"1">>)
  /\ penv["SERVICE_NAME"] = Str(<<"t">>)
  /\ DOMAIN BrowserEnv.entries = {"BASE_URL", "NODE_ENV"}

\* the string a JSON string literal stands for (what JSON.parse reads)
RECURSIVE Unescape(_)
Unescape(s) ==
  IF s = <<>> THEN <<>>
  ELSE IF Head(s) = Backslash /\ Len(s) >= 2
       THEN <<s[2]>> \o Unescape(SubSeq(s, 3, Len(s)))
       ELSE <<Head(s)>> \o Unescape(Tail(s))

Inner(s) == SubSeq(s, 2, Len(s) - 1)

\* a string value that starts and ends with a double quote
QuotedLiteral(v) ==
  /\ v.t = "string"
  /\ Len(v.s) >= 2
  /\ v.s[1] = Quote
  /\ v.s[Len(v.s)] = Quote

\* C2: every entry of the browser-side projection is the JSON literal of
\* the source value: a quoted string that reads back as the source value,
\* also when the source value looks numeric or boolean; BASE_URL
\* https://x.com gives "https://x.com" with its quotes.
C2_ValuesAreQuotedLiterals ==
  ClientConfigMade =>
    /\ \A k \in DOMAIN BrowserEnv.entries :
         /\ QuotedLiteral(BrowserEnv.entries[k])
         /\ Unescape(Inner(BrowserEnv.entries[k].s)) = env[k].s
    /\ env["BASE_URL"] = Str(ValUrl) =>
         BrowserEnv.entries["BASE_URL"] = Str(<<Quote>> \o ValUrl \o <<Quote>>)
    /\ env["NODE_ENV"] = Str(ValProduction) =>
         BrowserEnv.entries["NODE_ENV"] =
           Str(<<Quote>> \o ValProduction \o <<Quote>>)

C2_Witness ==
  /\ pc = "loaded"
  /\ penv["BASE_URL"] = Str(<<"1">>)
  /\ penv["NODE_ENV"] = Str(ValTrue)
  /\ BrowserEnv.entries["BASE_URL"] = Str(<<Quote, "1", Quote>>)
  /\ BrowserEnv.entries["NODE_ENV"] = Str(<<Quote>> \o ValTrue \o <<Quote>>)

\* C3: getDefinePlugin(true) gives the pass-through 'process.env' and a
\* true __isServer whatever the environment holds; getDefinePlugin(false)
\* gives a false __isServer.
C3_ServerPassThrough ==
  /\ pc = "loaded" =>
       /\ serverDefine["process.env"] = Code("process.env")
       /\ serverDefine["__isServer"] = TRUE
  /\ ClientConfigMade => clientDefine["__isServer"] = FALSE

C3_Witness ==
  /\ pc = "loaded"
  /\ penv["BASE_URL"] = Undefined
  /\ penv["API_SECRET"] = Str(<<"1">>)
  /\ serverDefine["process.env"].kind = "code"
  /\ clientDefine["process.env"].kind = "object"

\* C10: an environment variable the configuration reads and finds unset
\* is replaced by the placeholder, and the evaluation of the module goes
\* on to its end: serviceName is then the placeholder and publicPath is
\* built from it.
C10_UnsetDefaulted ==
  /\ pc \notin {"start", "serviceName"} /\ penv["SERVICE_NAME"] = Undefined =>
       serviceName = Str(NotSet)
  /\ pc # "start" =>
       \A k \in RecognizedKeys : penv[k] = Undefined => env[k] = Str(NotSet)
  /\ pc \notin {"start", "serviceName", "publicPath"}
       /\ penv["BASE_URL"] = Undefined =>
       publicPath = NotSet \o <<"/","a","s","s","e","t","s","/">>
  /\ pc # "loaded" => ENABLED Next

C10_Witness ==
  /\ pc = "loaded"
  /\ penv["SERVICE_NAME"] = Undefined
  /\ penv["BASE_URL"] = Undefined
  /\ penv["NODE_ENV"] = Undefined
  /\ serviceName = Str(NotSet)
  /\ publicPath = <<"n","o","t"," ","s","e","t","/","a","s","s","e","t","s","/">>

---------------------------------------------------------------------------
(* Properties of absoluteVersion (checked under SpecVersion) *)

KeptChars ==
  {"0","1","2","3","4","5","6","7","8","9",".","-",
   "a","b","c","d","e","f","g","h","i","j","k","l","m",
   "n","o","p","q","r","s","t","u","v","w","x","y","z"}

IsKept(c) == c \in KeptChars

Sanitized == cdnReact[2]

---------------------------------------------------------------------------
(* Properties of the client build (checked under SpecBuild) *)

BothBuilt == prevClient.built /\ lastClient.built

ChunkOf(build, name) == CHOOSE c \in build.chunks : c.name = name

Names(build) == {c.name : c \in build.chunks}

\* the chunks whose contents differ between the last two client builds
ChangedChunks ==
  {c.name : c \in {d \in lastClient.chunks :
                     \E m \in d.modules : prevClient.rev[m] # lastClient.rev[m]}}

\* the chunks whose file name differs between the last two client builds
RenamedChunks ==
  {n \in Names(lastClient) :
     ChunkOf(prevClient, n).file # ChunkOf(lastClient, n).file}

\* the two builds differ only in the contents of one chunk, not vendor
OneNonVendorChunkChanged ==
  /\ BothBuilt
  /\ Names(prevClient) = Names(lastClient)
  /\ Cardinality(ChangedChunks) = 1
  /\ "vendor" \notin ChangedChunks

\* C5 as stated: exactly one chunk file name differs between two builds
\* that differ only in one non-vendor chunk, and the name of the vendor
\* chunk's file is the same in both.
C5_Original ==
  OneNonVendorChunkChanged =>
    /\ Cardinality(RenamedChunks) = 1
    /\ "vendor" \notin RenamedChunks

\* C5 as amended: between two client builds that differ only in the
\* contents of one non-vendor chunk, a dynamically loaded chunk has another
\* file name exactly when its contents differ, while the files of the
\* initial chunks, main and vendor, carry the hash of the whole build and
\* both have another name.
C5_OnlyChangedAsyncChunkRenamed ==
  OneNonVendorChunkChanged =>
    \A c \in lastClient.chunks :
      IF c.initial THEN c.name \in RenamedChunks
      ELSE (c.name \in RenamedChunks <=> c.name \in ChangedChunks)

C5_Witness ==
  /\ OneNonVendorChunkChanged
  /\ ChangedChunks = {"page1"}
  /\ {"page1", "page2", "main", "vendor"} \subseteq Names(lastClient)
  /\ RenamedChunks = {"page1", "main", "vendor"}

ThirdParty(m) == m.dir = "node_modules"

\* C6 as stated: every module under node_modules is in the one initial
\* chunk named vendor and in no other chunk, dynamically loaded or not.
C6_Original ==
  lastClient.built =>
    \A c \in lastClient.chunks : \A m \in c.modules :
      ThirdParty(m) => c.name = "vendor" /\ c.initial

\* C6 as amended: every module under node_modules that the initial chunks
\* hold is in the one chunk named vendor, which is part of the initial
\* load and holds nothing but such modules; a third-party module imported
\* only by dynamically loaded code stays in a dynamically loaded chunk.
C6_InitialThirdPartyInVendor ==
  lastClient.built =>
    /\ \A c \in lastClient.chunks : \A m \in c.modules :
         ThirdParty(m) /\ c.initial => c.name = "vendor"
    /\ Cardinality({c \in lastClient.chunks : c.name = "vendor"}) = 1
    /\ ChunkOf(lastClient, "vendor").initial
    /\ \A m \in ChunkOf(lastClient, "vendor").modules : ThirdParty(m)
    /\ Mod("node_modules", BabelPolyfill) \in ChunkOf(lastClient, "vendor").modules
    /\ libFrom = "entry" => Lib \in ChunkOf(lastClient, "vendor").modules
    /\ libFrom = "pages" =>
         \A c \in lastClient.chunks : Lib \in c.modules => ~c.initial

C6_Witness ==
  /\ lastClient.built
  /\ libFrom = "pages"
  /\ nSplit = 2
  /\ ~libLarge
  /\ Lib \in ChunkOf(lastClient, "page1").modules
  /\ Lib \in ChunkOf(lastClient, "page2").modules
  /\ Lib \notin ChunkOf(lastClient, "vendor").modules

\* the files a build found in the directory and did not emit itself
Stale == distBefore \ emitted

\* C9 as stated: once a build is over, client or server, the output
\* directory holds no file of an earlier build that this build did not
\* emit.
C9_Original == lastBuild # "none" => dist \cap Stale = {}

\* C9 as amended: a client build clears the output directory, which then
\* holds the files of that build and no others; a server build clears
\* nothing and adds its file to what the directory held.
C9_ClientBuildClears ==
  /\ lastBuild = "client" => dist = emitted /\ dist \cap Stale = {}
  /\ lastBuild = "server" => dist = distBefore \cup emitted

C9_Witness ==
  /\ lastBuild = "client"
  /\ prevClient.built
  /\ File("server", {}, ".js") \in Stale
  /\ \E f \in Stale : f.ext = ".chunk.js"
  /\ dist = emitted

---------------------------------------------------------------------------
(* Properties of the server build (checked under SpecServer) *)

\* C7: the server build emits one file, server.js, however many dynamic
\* imports the source holds.
C7_OneServerFile ==
  serverOut.built =>
    /\ Cardinality(serverOut.files) = 1
    /\ serverOut.files = {File("server", {}, ".js")}

C7_Witness ==
  /\ serverOut.built
  /\ nSplit = 2
  /\ lastBuild = "server"
  /\ {PageModule(1), PageModule(2), ServerEntry} \subseteq serverOut.bundled
  /\ serverOut.files = {File("server", {}, ".js")}

\* the requests with lyft in their name
LyftNamed == {LyftIdl, MyLyft}

HostProvided == InstalledPackages \cup NodeBuiltins

\* C8: of the packages the server source imports, one whose name matches
\* /lyft/ is never external, its module is in the bundle; every other
\* package the host provides is external and not in the bundle.
C8_ExternalsButLyft ==
  serverOut.built =>
    \A r \in imports :
      /\ r \in LyftNamed =>
           r \notin serverOut.externals /\ ServerModule(r) \in serverOut.bundled
      /\ r \in HostProvided \ LyftNamed =>
           r \in serverOut.externals /\ ServerModule(r) \notin serverOut.bundled

C8_Witness ==
  /\ serverOut.built
  /\ imports = Requests
  /\ serverOut.externals = {React, Flyte, NodePath, BabelPolyfill}
  /\ {ServerModule(LyftIdl), ServerModule(MyLyft)} \subseteq serverOut.bundled

=============================================================================
